---------------------------- MODULE Spec2Model ----------------------------
(***************************************************************************)
(* cutplace Range (src/cutplace/range.py): the constructor's token-driven  *)
(* parser of range texts such as "1:40", "-5:", "3", "1:10,20:30", and     *)
(* validate().                                                             *)
(*                                                                         *)
(* A Python string is a tuple of one-character strings; an optional value  *)
(* is None (the empty tuple) or Some(x) (a one-element tuple).  A range    *)
(* item is the pair <<lower, upper>> of optional integers.  The token      *)
(* stream of the effective text is read lazily, one tokens.next() at a     *)
(* time, as the generator of tokenize.generate_tokens delivers it.         *)
(***************************************************************************)
EXTENDS Integers, Sequences, FiniteSets, TLC

\* Largest number literal of the explored texts.
MaxNum == 2
\* Largest number of tokens (the end marker included) of an explored text.
MaxTokens == 6

None == <<>>
Some(x) == <<x>>
Val(o) == o[1]

VARIABLES
    args,         \* the call's arguments [text, default], fixed for the call
    text,         \* the local `text` (reassigned at line 40)
    hasText,      \* the local hasText
    description,  \* self.description: None, or Some(name of the string it holds)
    items,        \* self.items: None, or Some(list of items)
    consumed,     \* every token tokens.next() has delivered so far
    next,         \* the local `next`: None before the first tokens.next()
    lower, upper, colonFound, afterHyphen, endReached,
    pc,           \* "call", "outer" (line 52), "inner" (line 58), "constructed", "raised"
    error,        \* the exception that ended the constructor, "" when none
    raisedAt,     \* the line of the raise statement, 0 when none
    lastValue,    \* the value of the latest validate() call, None before the first
    lastResult    \* its outcome: "ok" or "RangeValueError"

vars == <<args, text, hasText, description, items, consumed, next, lower, upper,
          colonFound, afterHyphen, endReached, pc, error, raisedAt, lastValue,
          lastResult>>

----------------------------------------------------------------------------
(* Strings and numbers *)

Digits == <<"0", "1", "2", "3", "4", "5", "6", "7", "8", "9">>

IsDigit(c) == \E i \in 1..10 : Digits[i] = c

DigitValue(c) == (CHOOSE i \in 1..10 : Digits[i] = c) - 1

RECURSIVE DecimalValue(_)
DecimalValue(s) ==
    IF s = <<>> THEN 0
    ELSE 10 * DecimalValue(SubSeq(s, 1, Len(s) - 1)) + DigitValue(s[Len(s)])

\* long(nextValue) of line 63: Some(value), or None for the ValueError.
long(s) ==
    IF s # <<>> /\ \A i \in 1..Len(s) : IsDigit(s[i])
    THEN Some(DecimalValue(s))
    ELSE None

RECURSIVE NatStr(_)
NatStr(n) ==
    IF n < 10 THEN <<Digits[n + 1]>>
    ELSE NatStr(n \div 10) \o <<Digits[(n % 10) + 1]>>

\* "%s" % n for an integer n.
str(n) == IF n < 0 THEN <<"-">> \o NatStr(-n) ELSE NatStr(n)

----------------------------------------------------------------------------
(* Tokens *)

Tok(type, value) == [type |-> type, value |-> value]

EofToken == Tok("ENDMARKER", <<>>)

isEofToken(tok) == tok.type = "ENDMARKER"

isCommaToken(tok) == tok.type = "OP" /\ tok.value = <<",">>

\* The tokens a text of the explored size can hold.
TokenAlphabet ==
    {Tok("NUMBER", str(n)) : n \in 0..MaxNum}
    \cup {Tok("NUMBER", <<"1", ".", "5">>)}
    \cup {Tok("OP", <<c>>) : c \in {"-", ":", ","}}
    \cup {Tok("NAME", <<"x">>)}
    \cup {EofToken}

\* What tokens.next() can deliver after the tokens `seen`: nothing after the
\* end marker (StopIteration); a non-blank text holds at least one token
\* before its end marker.
NextTokens(seen) ==
    IF seen # <<>> /\ isEofToken(seen[Len(seen)]) THEN {}
    ELSE IF seen = <<>> THEN TokenAlphabet \ {EofToken}
    ELSE IF Len(seen) >= MaxTokens - 1 THEN {EofToken}
    ELSE TokenAlphabet

----------------------------------------------------------------------------
(* Items *)

Item(lo, up) == <<lo, up>>

itemContains(item, value) ==
    IF value # None
    THEN LET lo == item[1]
             up == item[2]
         IN  IF lo = None
             THEN IF up = None THEN TRUE ELSE Val(value) <= Val(up)
             ELSE IF up = None THEN Val(value) >= Val(lo)
             ELSE Val(value) >= Val(lo) /\ Val(value) <= Val(up)
    ELSE FALSE

itemsOverlap(some, other) ==
    itemContains(some, other[1]) \/ itemContains(some, other[2])


----------------------------------------------------------------------------
(* The constructor's parser, lines 51–123 *)

\* The locals of one outer-loop iteration as lines 53–56 set them.
NewFrame ==
    [lower |-> None, upper |-> None, colonFound |-> FALSE, afterHyphen |-> FALSE,
     error |-> "", line |-> 0]

Raise(f, exception, line) == [f EXCEPT !.error = exception, !.line = line]

\* Lines 61–77 without line 68: the hyphen flag stays set after the number.
OnNumber_hyphenSticky(f, nextValue) ==
    IF long(nextValue) = None
    THEN Raise(f, "RangeSyntaxError", 65)
    ELSE LET longValue == IF f.afterHyphen
                          THEN (-1) * Val(long(nextValue))
                          ELSE Val(long(nextValue))
         IN  IF f.colonFound
             THEN IF f.upper = None
                  THEN [f EXCEPT !.upper = Some(longValue)]
                  ELSE Raise(f, "RangeSyntaxError", 73)
             ELSE IF f.lower = None
             THEN [f EXCEPT !.lower = Some(longValue)]
             ELSE Raise(f, "RangeSyntaxError", 77)

\* Lines 61–77 without the raises of lines 73 and 77: a further number
\* replaces the bound.
OnNumber_overwrites(f, nextValue) ==
    IF long(nextValue) = None
    THEN Raise(f, "RangeSyntaxError", 65)
    ELSE LET longValue == IF f.afterHyphen
                          THEN (-1) * Val(long(nextValue))
                          ELSE Val(long(nextValue))
             g == [f EXCEPT !.afterHyphen = FALSE]
         IN  IF g.colonFound
             THEN [g EXCEPT !.upper = Some(longValue)]
             ELSE [g EXCEPT !.lower = Some(longValue)]

\* Lines 61–77: a NUMBER token.
OnNumber(f, nextValue) ==
    IF long(nextValue) = None
    THEN Raise(f, "RangeSyntaxError", 65)
    ELSE LET longValue == IF f.afterHyphen
                          THEN (-1) * Val(long(nextValue))
                          ELSE Val(long(nextValue))
             g == [f EXCEPT !.afterHyphen = FALSE]
         IN  IF g.colonFound
             THEN IF g.upper = None
                  THEN [g EXCEPT !.upper = Some(longValue)]
                  ELSE Raise(g, "RangeSyntaxError", 73)
             ELSE IF g.lower = None
             THEN [g EXCEPT !.lower = Some(longValue)]
             ELSE Raise(g, "RangeSyntaxError", 77)

\* Lines 59–88 without the test of line 83: a second colon passes.
OnToken_secondColonPasses(f, tok) ==
    LET nextType == tok.type
        nextValue == tok.value
    IN  IF nextType = "NUMBER"
        THEN OnNumber(f, nextValue)
        ELSE IF f.afterHyphen
        THEN Raise(f, "RangeSyntaxError", 79)
        ELSE IF nextType = "OP" /\ nextValue = <<"-">>
        THEN [f EXCEPT !.afterHyphen = TRUE]
        ELSE IF nextType = "OP" /\ nextValue = <<":">>
        THEN [f EXCEPT !.colonFound = TRUE]
        ELSE Raise(f, "RangeSyntaxError", 88)

\* Lines 59–88: the body of the inner loop for the token `tok`.
OnToken(f, tok) ==
    LET nextType == tok.type
        nextValue == tok.value
    IN  IF nextType = "NUMBER"
        THEN OnNumber(f, nextValue)
        ELSE IF f.afterHyphen
        THEN Raise(f, "RangeSyntaxError", 79)
        ELSE IF nextType = "OP" /\ nextValue = <<"-">>
        THEN [f EXCEPT !.afterHyphen = TRUE]
        ELSE IF nextType = "OP" /\ nextValue = <<":">>
        THEN IF f.colonFound
             THEN Raise(f, "RangeSyntaxError", 84)
             ELSE [f EXCEPT !.colonFound = TRUE]
        ELSE Raise(f, "RangeSyntaxError", 88)

\* Lines 90–114 with ":" resolved as an interval without bounds.
Resolve_colonAsOpen(f) ==
    IF f.afterHyphen
    THEN [error |-> "RangeSyntaxError", line |-> 91, result |-> None]
    ELSE IF f.lower = None
    THEN IF f.upper = None
         THEN IF f.colonFound
              THEN [error |-> "", line |-> 0, result |-> Some(Item(None, None))]
              ELSE [error |-> "", line |-> 0, result |-> None]
         ELSE IF ~f.colonFound
              THEN [error |-> "AssertionError", line |-> 104, result |-> None]
              ELSE [error |-> "", line |-> 0, result |-> Some(Item(None, f.upper))]
    ELSE IF f.colonFound
    THEN IF f.upper # None /\ Val(f.lower) > Val(f.upper)
         THEN [error |-> "RangeSyntaxError", line |-> 110, result |-> None]
         ELSE [error |-> "", line |-> 0, result |-> Some(Item(f.lower, f.upper))]
    ELSE [error |-> "", line |-> 0, result |-> Some(Item(f.lower, f.lower))]

\* Lines 90–114 with "" rejected like ":".
Resolve_emptyIsError(f) ==
    IF f.afterHyphen
    THEN [error |-> "RangeSyntaxError", line |-> 91, result |-> None]
    ELSE IF f.lower = None
    THEN IF f.upper = None
         THEN [error |-> "RangeSyntaxError", line |-> 99, result |-> None]
         ELSE IF ~f.colonFound
              THEN [error |-> "AssertionError", line |-> 104, result |-> None]
              ELSE [error |-> "", line |-> 0, result |-> Some(Item(None, f.upper))]
    ELSE IF f.colonFound
    THEN IF f.upper # None /\ Val(f.lower) > Val(f.upper)
         THEN [error |-> "RangeSyntaxError", line |-> 110, result |-> None]
         ELSE [error |-> "", line |-> 0, result |-> Some(Item(f.lower, f.upper))]
    ELSE [error |-> "", line |-> 0, result |-> Some(Item(f.lower, f.lower))]

\* Lines 90–114 with ":" handled as "" (the TODO of line 98).
Resolve_colonAsEmpty(f) ==
    IF f.afterHyphen
    THEN [error |-> "RangeSyntaxError", line |-> 91, result |-> None]
    ELSE IF f.lower = None
    THEN IF f.upper = None
         THEN [error |-> "", line |-> 0, result |-> None]
         ELSE [error |-> "", line |-> 0, result |-> Some(Item(None, f.upper))]
    ELSE IF f.colonFound
    THEN IF f.upper # None /\ Val(f.lower) > Val(f.upper)
         THEN [error |-> "RangeSyntaxError", line |-> 110, result |-> None]
         ELSE [error |-> "", line |-> 0, result |-> Some(Item(f.lower, f.upper))]
    ELSE [error |-> "", line |-> 0, result |-> Some(Item(f.lower, f.lower))]

\* Lines 90–114 with "x" resolved as "x:".
Resolve_singleAsOpen(f) ==
    IF f.afterHyphen
    THEN [error |-> "RangeSyntaxError", line |-> 91, result |-> None]
    ELSE IF f.lower = None
    THEN IF f.upper = None
         THEN IF f.colonFound
              THEN [error |-> "RangeSyntaxError", line |-> 99, result |-> None]
              ELSE [error |-> "", line |-> 0, result |-> None]
         ELSE [error |-> "", line |-> 0, result |-> Some(Item(None, f.upper))]
    ELSE IF f.colonFound /\ f.upper # None /\ Val(f.lower) > Val(f.upper)
    THEN [error |-> "RangeSyntaxError", line |-> 110, result |-> None]
    ELSE [error |-> "", line |-> 0, result |-> Some(Item(f.lower, f.upper))]

\* Lines 92–114 without lines 90–91: a hyphen at the end of an item passes.
Resolve_trailingHyphenPasses(f) ==
    IF f.lower = None
    THEN IF f.upper = None
         THEN IF f.colonFound
              THEN [error |-> "RangeSyntaxError", line |-> 99, result |-> None]
              ELSE [error |-> "", line |-> 0, result |-> None]
         ELSE [error |-> "", line |-> 0, result |-> Some(Item(None, f.upper))]
    ELSE IF f.colonFound
    THEN IF f.upper # None /\ Val(f.lower) > Val(f.upper)
         THEN [error |-> "RangeSyntaxError", line |-> 110, result |-> None]
         ELSE [error |-> "", line |-> 0, result |-> Some(Item(f.lower, f.upper))]
    ELSE [error |-> "", line |-> 0, result |-> Some(Item(f.lower, f.lower))]

\* Lines 90–114 without the test of line 109.
Resolve_noOrderCheck(f) ==
    IF f.afterHyphen
    THEN [error |-> "RangeSyntaxError", line |-> 91, result |-> None]
    ELSE IF f.lower = None
    THEN IF f.upper = None
         THEN IF f.colonFound
              THEN [error |-> "RangeSyntaxError", line |-> 99, result |-> None]
              ELSE [error |-> "", line |-> 0, result |-> None]
         ELSE [error |-> "", line |-> 0, result |-> Some(Item(None, f.upper))]
    ELSE IF f.colonFound
    THEN [error |-> "", line |-> 0, result |-> Some(Item(f.lower, f.upper))]
    ELSE [error |-> "", line |-> 0, result |-> Some(Item(f.lower, f.lower))]

\* Lines 90–114: the item's result, None for "no item".
Resolve(f) ==
    IF f.afterHyphen
    THEN [error |-> "RangeSyntaxError", line |-> 91, result |-> None]
    ELSE IF f.lower = None
    THEN IF f.upper = None
         THEN IF f.colonFound
              THEN [error |-> "RangeSyntaxError", line |-> 99, result |-> None]
              ELSE [error |-> "", line |-> 0, result |-> None]
         ELSE IF ~f.colonFound
              THEN [error |-> "AssertionError", line |-> 104, result |-> None]
              ELSE [error |-> "", line |-> 0, result |-> Some(Item(None, f.upper))]
    ELSE IF f.colonFound
    THEN IF f.upper # None /\ Val(f.lower) > Val(f.upper)
         THEN [error |-> "RangeSyntaxError", line |-> 110, result |-> None]
         ELSE [error |-> "", line |-> 0, result |-> Some(Item(f.lower, f.upper))]
    ELSE [error |-> "", line |-> 0, result |-> Some(Item(f.lower, f.lower))]

\* Lines 115–121 with the new item put in front of the list.
AppendResult_prepends(list, result) ==
    IF result = None
    THEN [error |-> "", line |-> 0, items |-> list]
    ELSE IF \E i \in 1..Len(list) : itemsOverlap(list[i], Val(result))
    THEN [error |-> "RangeSyntaxError", line |-> 119, items |-> list]
    ELSE [error |-> "", line |-> 0, items |-> <<Val(result)>> \o list]

\* Lines 115–121: the list after `result` is checked against every item and
\* appended; error set when an item overlaps it.
AppendResult(list, result) ==
    IF result = None
    THEN [error |-> "", line |-> 0, items |-> list]
    ELSE IF \E i \in 1..Len(list) : itemsOverlap(list[i], Val(result))
    THEN [error |-> "RangeSyntaxError", line |-> 119, items |-> list]
    ELSE [error |-> "", line |-> 0, items |-> Append(list, Val(result))]

\* Lines 90–121: what follows the inner loop.
EndOfItem(f, list) ==
    LET r == Resolve(f)
    IN  IF r.error # ""
        THEN [error |-> r.error, line |-> r.line, items |-> list]
        ELSE AppendResult(list, r.result)

\* Lines 51–123 run over a whole token list: `next` is toks[i], f the locals
\* and list self.items.  tokens.next() past the list is StopIteration.
RECURSIVE ParseLoop(_, _, _, _)
ParseLoop(toks, i, f, list) ==
    IF i > Len(toks)
    THEN [error |-> "StopIteration", line |-> IF i = 1 THEN 57 ELSE 89, items |-> list]
    ELSE IF ~isEofToken(toks[i]) /\ ~isCommaToken(toks[i])
    THEN LET g == OnToken(f, toks[i])
         IN  IF g.error # ""
             THEN [error |-> g.error, line |-> g.line, items |-> list]
             ELSE ParseLoop(toks, i + 1, g, list)
    ELSE LET r == EndOfItem(f, list)
         IN  IF r.error # "" \/ isEofToken(toks[i])
             THEN r
             ELSE ParseLoop(toks, i + 1, NewFrame, r.items)

\* Range(text) for a non-blank text with the tokens toks and no default.
ParseTokens(toks) == ParseLoop(toks, 1, NewFrame, <<>>)

----------------------------------------------------------------------------
(* Rendering, lines 125–161, and the tokenizer of line 50 *)

NoneStr == <<"N", "o", "n", "e">>

\* _repr_item that renders "x:" without its colon.
repr_item_noColon(item) ==
    IF item # None
    THEN LET lo == item[1]
             up == item[2]
         IN  IF lo = None
             THEN <<":">> \o str(Val(up))
             ELSE IF up = None THEN str(Val(lo))
             ELSE IF Val(lo) = Val(up) THEN str(Val(lo))
             ELSE str(Val(lo)) \o <<":">> \o str(Val(up))
    ELSE NoneStr

\* _repr_item(item); item is None or a pair.
repr_item(item) ==
    IF item # None
    THEN LET lo == item[1]
             up == item[2]
         IN  IF lo = None
             THEN IF up = None THEN <<"AssertionError">> ELSE <<":">> \o str(Val(up))
             ELSE IF up = None THEN str(Val(lo)) \o <<":">>
             ELSE IF Val(lo) = Val(up) THEN str(Val(lo))
             ELSE str(Val(lo)) \o <<":">> \o str(Val(up))
    ELSE NoneStr

\* The loop of lines 152–157 from the i-th item on.
RECURSIVE reprItemsFrom(_, _)
reprItemsFrom(list, i) ==
    IF i > Len(list) THEN <<>>
    ELSE (IF i = 1 THEN <<>> ELSE <<",", " ">>) \o repr_item(list[i])
         \o reprItemsFrom(list, i + 1)

\* __repr__ of a Range whose self.items is selfItems.
repr(selfItems) ==
    IF selfItems # None /\ Val(selfItems) # <<>>
    THEN <<"'">> \o reprItemsFrom(Val(selfItems), 1) \o <<"'">>
    ELSE NoneStr

\* The letters of the texts tokenized here.
Letters == {"N", "o", "n", "e", "x"}

RECURSIVE DigitRunEnd(_, _)
DigitRunEnd(s, i) ==
    IF i <= Len(s) /\ IsDigit(s[i]) THEN DigitRunEnd(s, i + 1) ELSE i

RECURSIVE NameRunEnd(_, _)
NameRunEnd(s, i) ==
    IF i <= Len(s) /\ (s[i] \in Letters \/ IsDigit(s[i])) THEN NameRunEnd(s, i + 1) ELSE i

\* The index of the quote closing a string that opened before i, 0 when none.
RECURSIVE QuoteEnd(_, _)
QuoteEnd(s, i) ==
    IF i > Len(s) THEN 0
    ELSE IF s[i] = "'" THEN i
    ELSE QuoteEnd(s, i + 1)

\* tokenize.generate_tokens on the one-line text s from its i-th character:
\* numbers, names, quoted strings and one-character operators, white space
\* between tokens skipped, the end marker last.
RECURSIVE TokenizeFrom(_, _)
TokenizeFrom(s, i) ==
    IF i > Len(s) THEN <<EofToken>>
    ELSE IF s[i] = " " THEN TokenizeFrom(s, i + 1)
    ELSE IF IsDigit(s[i])
    THEN LET j == DigitRunEnd(s, i)
             k == IF j < Len(s) /\ s[j] = "." THEN DigitRunEnd(s, j + 1) ELSE j
         IN  <<Tok("NUMBER", SubSeq(s, i, k - 1))>> \o TokenizeFrom(s, k)
    ELSE IF s[i] \in Letters
    THEN LET j == NameRunEnd(s, i)
         IN  <<Tok("NAME", SubSeq(s, i, j - 1))>> \o TokenizeFrom(s, j)
    ELSE IF s[i] = "'"
    THEN LET j == QuoteEnd(s, i + 1)
         IN  IF j = 0
             THEN <<Tok("ERRORTOKEN", <<s[i]>>)>> \o TokenizeFrom(s, i + 1)
             ELSE <<Tok("STRING", SubSeq(s, i, j))>> \o TokenizeFrom(s, j + 1)
    ELSE IF s[i] \in {"-", ":", ","}
    THEN <<Tok("OP", <<s[i]>>)>> \o TokenizeFrom(s, i + 1)
    ELSE <<Tok("ERRORTOKEN", <<s[i]>>)>> \o TokenizeFrom(s, i + 1)

Tokenize(s) == TokenizeFrom(s, 1)

\* Range(s) for the non-blank text s.
ParseText(s) == ParseTokens(Tokenize(s))

----------------------------------------------------------------------------
(* validate, lines 192–216 *)

\* Lines 203–214: the scan from itemIndex on; "AssertionError" for line 206.
RECURSIVE validateScan(_, _, _, _)
validateScan(list, value, isValid, itemIndex) ==
    IF ~isValid /\ itemIndex < Len(list)
    THEN LET lo == list[itemIndex + 1][1]
             up == list[itemIndex + 1][2]
         IN  IF lo = None
             THEN IF up = None
                  THEN "AssertionError"
                  ELSE validateScan(list, value, value <= Val(up), itemIndex + 1)
             ELSE IF up = None
             THEN validateScan(list, value, value >= Val(lo), itemIndex + 1)
             ELSE validateScan(list, value, value >= Val(lo) /\ value <= Val(up),
                               itemIndex + 1)
    ELSE IF isValid THEN "ok" ELSE "RangeValueError"

\* validate with `if self.items:` for `if self.items is not None:`.
validate_truthiness(selfItems, value) ==
    IF selfItems # None /\ Val(selfItems) # <<>>
    THEN validateScan(Val(selfItems), value, FALSE, 0)
    ELSE "ok"

\* validate whose scan ends after the first item.
validate_firstItemOnly(selfItems, value) ==
    IF selfItems # None
    THEN validateScan(IF Val(selfItems) = <<>> THEN <<>> ELSE <<Head(Val(selfItems))>>,
                      value, FALSE, 0)
    ELSE "ok"

\* validate(name, value) on a Range whose self.items is selfItems: "ok" when it
\* returns, else the name of the exception.
validate(selfItems, value) ==
    IF selfItems # None
    THEN validateScan(Val(selfItems), value, FALSE, 0)
    ELSE "ok"

\* The values validate() is called with.
ValidateValues == (0 - MaxNum - 1)..(MaxNum + 1)

----------------------------------------------------------------------------
(* The calls *)

\* The strings a call passes, by name: a blank text (empty or only white
\* space), a non-blank text, a non-blank default (line 35 asserts it).
TextArgs == {None, Some("BLANK"), Some("TEXT")}
DefaultArgs == {None, Some("DEFAULT")}

\* Line 38 without the strip(): a blank text counts as a text.
HasText_noStrip(t) == t # None

\* Line 38: text is not None and text.strip().
HasText(t) == t # None /\ Val(t) # "BLANK"

\* Line 39 without the test of hasText: a default always replaces the text.
UseDefault_always(ht, default) == default # None

\* Line 39.
UseDefault(ht, default) == ~ht /\ default # None

Init ==
    /\ args \in [text : TextArgs, default : DefaultArgs]
    /\ text = args.text
    /\ hasText = FALSE
    /\ description = None
    /\ items = None
    /\ consumed = <<>>
    /\ next = None
    /\ lower = None
    /\ upper = None
    /\ colonFound = FALSE
    /\ afterHyphen = FALSE
    /\ endReached = FALSE
    /\ pc = "call"
    /\ error = ""
    /\ raisedAt = 0
    /\ lastValue = None
    /\ lastResult = None

\* Lines 35–51.  Line 41 reads the name `true`, which Python does not define:
\* NameError, after line 40 has assigned the default to `text`.
Construct ==
    /\ pc = "call"
    /\ LET ht == HasText(args.text)
       IN  IF UseDefault(ht, args.default)
           THEN /\ text' = args.default
                /\ hasText' = ht
                /\ pc' = "raised"
                /\ error' = "NameError"
                /\ raisedAt' = 41
                /\ UNCHANGED <<description, items>>
           ELSE IF ~ht
           THEN /\ hasText' = ht
                /\ description' = None
                /\ items' = None
                /\ pc' = "constructed"
                /\ UNCHANGED <<text, error, raisedAt>>
           ELSE /\ hasText' = ht
                /\ description' = text
                /\ items' = Some(<<>>)
                /\ pc' = "outer"
                /\ UNCHANGED <<text, error, raisedAt>>
    /\ UNCHANGED <<args, consumed, next, lower, upper, colonFound, afterHyphen,
                   endReached, lastValue, lastResult>>

\* tokens.next() at `line`: the next token into `next`, or StopIteration.
TokensNext(line) ==
    IF NextTokens(consumed) = {}
    THEN /\ pc' = "raised"
         /\ error' = "StopIteration"
         /\ raisedAt' = line
         /\ UNCHANGED <<consumed, next>>
    ELSE /\ \E tok \in NextTokens(consumed) :
               /\ next' = Some(tok)
               /\ consumed' = Append(consumed, tok)
         /\ pc' = "inner"
         /\ UNCHANGED <<error, raisedAt>>

\* Lines 52–57.
BeginItem ==
    /\ pc = "outer"
    /\ ~endReached
    /\ lower' = None
    /\ upper' = None
    /\ colonFound' = FALSE
    /\ afterHyphen' = FALSE
    /\ TokensNext(57)
    /\ UNCHANGED <<args, text, hasText, description, items, endReached, lastValue,
                   lastResult>>

\* Lines 58–89: one pass of the inner loop.
InnerStep ==
    /\ pc = "inner"
    /\ ~isEofToken(Val(next)) /\ ~isCommaToken(Val(next))
    /\ LET f == [NewFrame EXCEPT !.lower = lower, !.upper = upper,
                                 !.colonFound = colonFound,
                                 !.afterHyphen = afterHyphen]
           g == OnToken(f, Val(next))
       IN  /\ lower' = g.lower
           /\ upper' = g.upper
           /\ colonFound' = g.colonFound
           /\ afterHyphen' = g.afterHyphen
           /\ IF g.error # ""
              THEN /\ pc' = "raised"
                   /\ error' = g.error
                   /\ raisedAt' = g.line
                   /\ UNCHANGED <<consumed, next>>
              ELSE TokensNext(89)
    /\ UNCHANGED <<args, text, hasText, description, items, endReached, lastValue,
                   lastResult>>

\* The end of an item that records a syntax error and goes on with the next
\* item instead of raising.
EndItem_continues ==
    /\ pc = "inner"
    /\ isEofToken(Val(next)) \/ isCommaToken(Val(next))
    /\ LET f == [NewFrame EXCEPT !.lower = lower, !.upper = upper,
                                 !.colonFound = colonFound,
                                 !.afterHyphen = afterHyphen]
           r == EndOfItem(f, Val(items))
       IN  /\ items' = Some(r.items)
           /\ error' = IF r.error # "" THEN r.error ELSE error
           /\ raisedAt' = IF r.error # "" THEN r.line ELSE raisedAt
           /\ endReached' = isEofToken(Val(next))
           /\ pc' = IF isEofToken(Val(next)) THEN "constructed" ELSE "outer"
    /\ UNCHANGED <<args, text, hasText, description, consumed, next, lower, upper,
                   colonFound, afterHyphen, lastValue, lastResult>>

\* The end of an item without lines 122–123: endReached is never set.
EndItem_neverEnds ==
    /\ pc = "inner"
    /\ isEofToken(Val(next)) \/ isCommaToken(Val(next))
    /\ LET f == [NewFrame EXCEPT !.lower = lower, !.upper = upper,
                                 !.colonFound = colonFound,
                                 !.afterHyphen = afterHyphen]
           r == EndOfItem(f, Val(items))
       IN  IF r.error # ""
           THEN /\ pc' = "raised"
                /\ error' = r.error
                /\ raisedAt' = r.line
                /\ UNCHANGED <<items, endReached>>
           ELSE /\ items' = Some(r.items)
                /\ endReached' = FALSE
                /\ pc' = "outer"
                /\ UNCHANGED <<error, raisedAt>>
    /\ UNCHANGED <<args, text, hasText, description, consumed, next, lower, upper,
                   colonFound, afterHyphen, lastValue, lastResult>>

\* Line 58 leaving the inner loop, then lines 90–123.
EndItem ==
    /\ pc = "inner"
    /\ isEofToken(Val(next)) \/ isCommaToken(Val(next))
    /\ LET f == [NewFrame EXCEPT !.lower = lower, !.upper = upper,
                                 !.colonFound = colonFound,
                                 !.afterHyphen = afterHyphen]
           r == EndOfItem(f, Val(items))
       IN  IF r.error # ""
           THEN /\ pc' = "raised"
                /\ error' = r.error
                /\ raisedAt' = r.line
                /\ UNCHANGED <<items, endReached>>
           ELSE /\ items' = Some(r.items)
                /\ endReached' = isEofToken(Val(next))
                /\ pc' = IF isEofToken(Val(next)) THEN "constructed" ELSE "outer"
                /\ UNCHANGED <<error, raisedAt>>
    /\ UNCHANGED <<args, text, hasText, description, consumed, next, lower, upper,
                   colonFound, afterHyphen, lastValue, lastResult>>

\* A validate() that drops the items it has scanned from self.items.
Validate_consuming ==
    /\ pc = "constructed"
    /\ \E value \in ValidateValues :
           /\ lastValue' = Some(value)
           /\ lastResult' = Some(validate(items, value))
    /\ items' = IF items # None /\ Val(items) # <<>> THEN Some(Tail(Val(items))) ELSE items
    /\ UNCHANGED <<args, text, hasText, description, consumed, next, lower,
                   upper, colonFound, afterHyphen, endReached, pc, error, raisedAt>>

\* Lines 192–216: a validate() call on the constructed Range.
Validate ==
    /\ pc = "constructed"
    /\ \E value \in ValidateValues :
           /\ lastValue' = Some(value)
           /\ lastResult' = Some(validate(items, value))
    /\ UNCHANGED <<args, text, hasText, description, items, consumed, next, lower,
                   upper, colonFound, afterHyphen, endReached, pc, error, raisedAt>>

Next == Construct \/ BeginItem \/ InnerStep \/ EndItem \/ Validate

Spec == Init /\ [][Next]_vars

----------------------------------------------------------------------------
(* Properties *)

\* The constructor has returned or raised.
Finished == pc \in {"constructed", "raised"}

\* The integer v lies in the item's span, an absent bound being no bound.
IntervalHolds(item, v) ==
    /\ item[1] = None \/ Val(item[1]) <= v
    /\ item[2] = None \/ v <= Val(item[2])

\* Some integer lies in both spans.
SharesInteger(a, b) ==
    /\ a[1] = None \/ b[2] = None \/ Val(a[1]) <= Val(b[2])
    /\ b[1] = None \/ a[2] = None \/ Val(b[1]) <= Val(a[2])

\* The constructor is past the end of an item (lines 90–123 have run for the
\* locals lower, upper, colonFound).
AfterEndOfItem ==
    /\ pc \in {"outer", "constructed", "raised"}
    /\ next # None
    /\ isEofToken(Val(next)) \/ isCommaToken(Val(next))

\* C1: on a constructed Range whose items list is present, validate(name,
\* value) returns normally exactly when some stored item contains value
\* (bounds inclusive, an absent bound unbounded), and raises RangeValueError
\* otherwise; a validate() call made there had that outcome.
C1_ValidateIffContained ==
    (pc = "constructed" /\ items # None) =>
        /\ \A v \in ValidateValues :
               validate(items, v) =
                   IF \E i \in 1..Len(Val(items)) : IntervalHolds(Val(items)[i], v)
                   THEN "ok" ELSE "RangeValueError"
        /\ lastValue # None =>
               lastResult =
                   Some(IF \E i \in 1..Len(Val(items)) :
                               IntervalHolds(Val(items)[i], Val(lastValue))
                        THEN "ok" ELSE "RangeValueError")

\* A Range of two items has accepted a value its second item holds and its
\* first does not.
C1_Witness ==
    /\ pc = "constructed" /\ items # None /\ Len(Val(items)) = 2
    /\ lastValue # None /\ lastResult = Some("ok")
    /\ ~IntervalHolds(Val(items)[1], Val(lastValue))
    /\ IntervalHolds(Val(items)[2], Val(lastValue))

\* C2: no two intervals stored in items share an integer, whichever of the
\* two came first in the text.
C2_StoredItemsDisjoint ==
    items # None =>
        \A i, j \in 1..Len(Val(items)) :
            i < j => ~SharesInteger(Val(items)[i], Val(items)[j])

\* C3: a Range constructed with a None or blank text and no default is
\* unconstrained (items is None) and validate succeeds on it for every value.
C3_UnconstrainedAcceptsAll ==
    (Finished /\ args.text \in {None, Some("BLANK")} /\ args.default = None) =>
        /\ pc = "constructed"
        /\ items = None
        /\ \A v \in ValidateValues : validate(items, v) = "ok"
        /\ lastValue # None => lastResult = Some("ok")

\* validate() has been called on the Range of a blank text.
C3_Witness ==
    /\ pc = "constructed" /\ args.text = Some("BLANK") /\ args.default = None
    /\ items = None /\ lastResult = Some("ok")

\* C4: with a None or blank text and a default given, construction
\* substitutes the default: it ends as Range(default) does, with the default
\* as description and the items of the default's tokens, and fails only with
\* the syntax error of the default.
C4_DefaultSubstituted ==
    (Finished /\ args.text \in {None, Some("BLANK")} /\ args.default # None) =>
        /\ error \in {"", "RangeSyntaxError"}
        /\ error = ParseTokens(consumed).error
        /\ pc = "constructed" =>
               /\ description = args.default
               /\ items = Some(ParseTokens(consumed).items)

\* C5: with a non-blank text the default is ignored: whatever the default,
\* construction ends as Range(text) does on the tokens read, with the same
\* error at the same place or the same items and the text as description.
C5_NonBlankTextWins ==
    (Finished /\ args.text = Some("TEXT")) =>
        /\ text = args.text
        /\ error = ParseTokens(consumed).error
        /\ raisedAt = ParseTokens(consumed).line
        /\ pc = "constructed" =>
               /\ description = args.text
               /\ items = Some(ParseTokens(consumed).items)

\* A Range of two items was constructed from a text although a default was
\* given.
C5_Witness ==
    /\ pc = "constructed" /\ args.text = Some("TEXT") /\ args.default = Some("DEFAULT")
    /\ items # None /\ Len(Val(items)) = 2

\* C6: every stored interval with both bounds has lower <= upper; an item
\* "x:y" with x > y raises the syntax error of line 110 and is not stored,
\* while "x:x" never raises it and, unless it overlaps an earlier item, is
\* stored as (x, x).
C6_LowerNotAboveUpper ==
    /\ items # None =>
           \A i \in 1..Len(Val(items)) :
               (Val(items)[i][1] # None /\ Val(items)[i][2] # None)
                   => Val(Val(items)[i][1]) <= Val(Val(items)[i][2])
    /\ (AfterEndOfItem /\ colonFound /\ ~afterHyphen /\ lower # None /\ upper # None) =>
           /\ Val(lower) > Val(upper) =>
                  /\ pc = "raised" /\ error = "RangeSyntaxError" /\ raisedAt = 110
                  /\ \A i \in 1..Len(Val(items)) : Val(items)[i] # Item(lower, upper)
           /\ Val(lower) = Val(upper) =>
                  /\ raisedAt # 110
                  /\ pc = "raised" => raisedAt = 119
                  /\ pc # "raised" => Val(items)[Len(Val(items))] = Item(lower, upper)

\* An item "x:y" with x > y has raised after an earlier item was stored.
C6_Witness ==
    /\ pc = "raised" /\ raisedAt = 110 /\ AfterEndOfItem
    /\ lower # None /\ upper # None /\ Val(lower) > Val(upper)
    /\ items # None /\ Len(Val(items)) = 1

C8_SyntaxErrorIsTerminal ==
    /\ [](error = "RangeSyntaxError" => (pc = "raised" /\ lastValue = None))
    /\ [][error = "RangeSyntaxError" => UNCHANGED vars]_vars

\* A syntax error was raised after two items had been stored.
C8_Witness ==
    /\ pc = "raised" /\ error = "RangeSyntaxError"
    /\ items # None /\ Len(Val(items)) = 2

\* C9: a validate() call, whether it returns or raises, leaves items and
\* description as they are, and with them the outcome of validate for every
\* value.
C9_ValidateDoesNotMutate ==
    [][pc = "constructed" =>
           /\ items' = items
           /\ description' = description
           /\ \A v \in ValidateValues : validate(items', v) = validate(items, v)]_vars

\* A validate() call on a Range of two items has raised RangeValueError.
C9_Witness ==
    /\ pc = "constructed" /\ items # None /\ Len(Val(items)) = 2
    /\ lastResult = Some("RangeValueError")

\* Every token read is a comma or the end marker.
OnlyCommas(toks) ==
    \A i \in 1..Len(toks) : isCommaToken(toks[i]) \/ isEofToken(toks[i])

\* C10: a non-blank text of commas only constructs a Range whose items list
\* is present and empty; validate raises RangeValueError on it for every
\* value, where it succeeds on the unconstrained Range (items None).
C10_EmptyItemsRejectAll ==
    (Finished /\ hasText /\ OnlyCommas(consumed)) =>
        /\ pc = "constructed"
        /\ items = Some(<<>>)
        /\ items # None
        /\ \A v \in ValidateValues :
               /\ validate(items, v) = "RangeValueError"
               /\ validate(None, v) = "ok"
        /\ lastValue # None => lastResult = Some("RangeValueError")

\* validate() has raised on the Range of the text ",".
C10_Witness ==
    /\ pc = "constructed" /\ hasText /\ Len(consumed) = 2 /\ OnlyCommas(consumed)
    /\ items = Some(<<>>) /\ lastResult = Some("RangeValueError")

----------------------------------------------------------------------------
(* Properties of the items of a text *)

IsComma(tok) == tok = Tok("OP", <<",">>)
IsColon(tok) == tok = Tok("OP", <<":">>)
IsHyphen(tok) == tok = Tok("OP", <<"-">>)
IsNumber(tok) == tok.type = "NUMBER"
IsSeparator(tok) == IsComma(tok) \/ tok = EofToken

\* The tokens toks from the i-th on, cut at the commas and the end marker:
\* the runs a separator has ended, and the run no separator has ended yet.
RECURSIVE RunsFrom(_, _, _, _)
RunsFrom(toks, i, cur, done) ==
    IF i > Len(toks) THEN [complete |-> done, pending |-> cur]
    ELSE IF IsSeparator(toks[i]) THEN RunsFrom(toks, i + 1, <<>>, Append(done, cur))
    ELSE RunsFrom(toks, i + 1, Append(cur, toks[i]), done)

CompleteRuns(toks) == RunsFrom(toks, 1, <<>>, <<>>).complete
PendingRun(toks) == RunsFrom(toks, 1, <<>>, <<>>).pending

\* The item the constructor is in or has just ended: its tokens so far.
CurrentRun ==
    IF consumed # <<>> /\ IsSeparator(consumed[Len(consumed)])
    THEN CompleteRuns(consumed)[Len(CompleteRuns(consumed))]
    ELSE PendingRun(consumed)

\* Every run of the tokens read, ended or not.
AllRuns == Append(CompleteRuns(consumed), PendingRun(consumed))

ColonCount(run) == Cardinality({i \in 1..Len(run) : IsColon(run[i])})

\* C11: an item whose tokens hold more than one colon makes construction fail
\* with RangeSyntaxError: once the constructor has ended, a text with such an
\* item has raised, and before that the second colon is the token about to be
\* refused.  The error of line 84 is raised for nothing else, so one colon in
\* each of several items is accepted.
C11_AtMostOneColonPerItem ==
    /\ (\E k \in 1..Len(AllRuns) : ColonCount(AllRuns[k]) >= 2) =>
           \/ pc = "raised" /\ error = "RangeSyntaxError"
           \/ /\ pc = "inner" /\ IsColon(Val(next)) /\ colonFound
              /\ ColonCount(CurrentRun) = 2
    /\ raisedAt = 84 =>
           /\ pc = "raised" /\ error = "RangeSyntaxError"
           /\ ColonCount(CurrentRun) = 2
    /\ (pc = "constructed" /\ hasText) =>
           \A k \in 1..Len(AllRuns) : ColonCount(AllRuns[k]) <= 1

\* The second item of a text has raised for its second colon, the first item
\* having held a colon of its own.
C11_Witness ==
    /\ pc = "raised" /\ raisedAt = 84
    /\ items # None /\ Len(Val(items)) = 1
    /\ Len(CompleteRuns(consumed)) = 1 /\ ColonCount(CompleteRuns(consumed)[1]) = 1

\* C12: an item that is a colon alone, as the only item or as any item of a
\* list, makes construction fail with RangeSyntaxError (line 99), and that
\* error is raised for nothing else.
C12_BareColonFails ==
    /\ (\E k \in 1..Len(CompleteRuns(consumed)) :
            CompleteRuns(consumed)[k] = <<Tok("OP", <<":">>)>>) =>
           \/ pc = "raised" /\ error = "RangeSyntaxError" /\ raisedAt = 99
           \/ pc = "inner" /\ IsSeparator(Val(next))
                 /\ CurrentRun = <<Tok("OP", <<":">>)>>
    /\ raisedAt = 99 =>
           /\ pc = "raised" /\ error = "RangeSyntaxError"
           /\ CurrentRun = <<Tok("OP", <<":">>)>>

\* A bare colon after a stored item has raised.
C12_Witness ==
    /\ pc = "raised" /\ raisedAt = 99
    /\ items # None /\ Len(Val(items)) = 1

\* The tokens of a run read as signed integers and colons: an integer literal
\* is its value, a hyphen and the integer literal after it the negated value;
\* any other token is marked bad.
RECURSIVE Elements(_, _)
Elements(run, i) ==
    IF i > Len(run) THEN <<>>
    ELSE IF IsHyphen(run[i]) /\ i < Len(run) /\ IsNumber(run[i + 1])
            /\ long(run[i + 1].value) # None
    THEN <<[kind |-> "number", value |-> 0 - DecimalValue(run[i + 1].value)]>>
         \o Elements(run, i + 2)
    ELSE IF IsNumber(run[i]) /\ long(run[i].value) # None
    THEN <<[kind |-> "number", value |-> DecimalValue(run[i].value)]>>
         \o Elements(run, i + 1)
    ELSE IF IsColon(run[i])
    THEN <<[kind |-> "colon", value |-> 0]>> \o Elements(run, i + 1)
    ELSE <<[kind |-> "bad", value |-> 0]>> \o Elements(run, i + 1)

Kinds(run) == [i \in 1..Len(Elements(run, 1)) |-> Elements(run, 1)[i].kind]

\* The interval of an item of the form "x", ":y", "x:" or "x:y" with x <= y,
\* None for any other run of tokens.
ExpectedItem(run) ==
    LET e == Elements(run, 1)
    IN  IF Kinds(run) = <<"number">>
        THEN Some(Item(Some(e[1].value), Some(e[1].value)))
        ELSE IF Kinds(run) = <<"colon", "number">>
        THEN Some(Item(None, Some(e[2].value)))
        ELSE IF Kinds(run) = <<"number", "colon">>
        THEN Some(Item(Some(e[1].value), None))
        ELSE IF Kinds(run) = <<"number", "colon", "number">> /\ e[1].value <= e[3].value
        THEN Some(Item(Some(e[1].value), Some(e[3].value)))
        ELSE None

\* C13: an item ":y" yields (None, y), "x:" yields (x, None), "x:y" with
\* x <= y yields (x, y) and "x" yields (x, x): a non-empty item that did not
\* raise has one of these forms and its interval is the last one stored; an
\* item of one of these forms raises only for an overlap (line 119); no stored
\* interval lacks both bounds.
C13_ItemResolution ==
    /\ (AfterEndOfItem /\ pc # "raised" /\ CurrentRun # <<>>) =>
           /\ ExpectedItem(CurrentRun) # None
           /\ Val(items) # <<>>
           /\ Val(items)[Len(Val(items))] = Val(ExpectedItem(CurrentRun))
    /\ (AfterEndOfItem /\ pc = "raised" /\ ExpectedItem(CurrentRun) # None) =>
           /\ raisedAt = 119
           /\ \E i \in 1..Len(Val(items)) :
                  SharesInteger(Val(items)[i], Val(ExpectedItem(CurrentRun)))
    /\ items # None =>
           \A i \in 1..Len(Val(items)) : Val(items)[i] # Item(None, None)

\* The items ":y" and "x" of one text are stored as (None, y) and (x, x).
C13_Witness ==
    /\ pc = "constructed" /\ items # None /\ Len(Val(items)) = 2
    /\ Val(items)[1][1] = None /\ Val(items)[1][2] # None
    /\ Val(items)[2][1] # None /\ Val(items)[2][1] = Val(items)[2][2]
    /\ ~colonFound

\* A bound of a falls within the span of b, an absent bound standing for
\* minus or plus infinity.
BoundWithin(a, b) ==
    \/ IF a[1] = None THEN b[1] = None ELSE IntervalHolds(b, Val(a[1]))
    \/ IF a[2] = None THEN b[2] = None ELSE IntervalHolds(b, Val(a[2]))

\* C14: the overlap test is symmetric and complete: for any two intervals the
\* constructor has stored, _itemsOverlap gives the same answer in either
\* order, and is true whenever a bound of one falls within the span of the
\* other.
C14_OverlapSymmetricComplete ==
    items # None =>
        \A i, j \in 1..Len(Val(items)) :
            LET a == Val(items)[i]
                b == Val(items)[j]
            IN  /\ itemsOverlap(a, b) = itemsOverlap(b, a)
                /\ (BoundWithin(a, b) \/ BoundWithin(b, a)) => itemsOverlap(a, b)

\* How far the constructor is: twice the tokens consumed, plus one between
\* the end of an item and the start of the next.  It never exceeds twice the
\* length of the token stream plus one.
Progress == 2 * Len(consumed) + (IF pc = "outer" /\ consumed # <<>> THEN 1 ELSE 0)

\* C15: parsing terminates on a finite token stream that ends with the end
\* marker: every step of the loops ends the constructor or moves it forward
\* in the stream, every pass of the outer loop consumes a token, the outer
\* loop goes on exactly while the last token consumed is not the end marker,
\* and no token is requested after the end marker (no StopIteration).
C15_ParsingTerminates ==
    /\ [](error # "StopIteration")
    /\ [](\A i \in 1..Len(consumed) : consumed[i] = EofToken => i = Len(consumed))
    /\ []((pc = "constructed" /\ hasText) =>
              (endReached /\ consumed # <<>> /\ consumed[Len(consumed)] = EofToken))
    /\ []((pc = "outer" /\ consumed # <<>>) =>
              (~endReached /\ consumed[Len(consumed)] # EofToken))
    /\ [][(pc = "outer" \/ pc = "inner") => (Finished' \/ Progress' > Progress)]_vars
    /\ [][pc = "outer" => Len(consumed') = Len(consumed) + 1]_vars

\* The constructor has returned after three passes of the outer loop.
C15_Witness ==
    /\ pc = "constructed" /\ hasText /\ endReached
    /\ Len(CompleteRuns(consumed)) = 3 /\ Len(consumed) >= 5

\* The items whose end (lines 90–121) has run without raising: every ended
\* run, but the last one while its end is still to run or when it has raised.
ProcessedRuns ==
    LET runs == CompleteRuns(consumed)
    IN  IF \/ pc = "inner" /\ IsSeparator(Val(next))
           \/ pc = "raised" /\ AfterEndOfItem
        THEN SubSeq(runs, 1, Len(runs) - 1)
        ELSE runs

\* The intervals of the runs from the i-th on, in their order, an empty run
\* giving none.
RECURSIVE ItemsOfRuns(_, _)
ItemsOfRuns(runs, i) ==
    IF i > Len(runs) THEN <<>>
    ELSE IF runs[i] = <<>> \/ ExpectedItem(runs[i]) = None THEN ItemsOfRuns(runs, i + 1)
    ELSE <<Val(ExpectedItem(runs[i]))>> \o ItemsOfRuns(runs, i + 1)

IsPrefix(s, t) == Len(s) <= Len(t) /\ SubSeq(t, 1, Len(s)) = s

\* C16: at every point of the parsing, items holds the intervals of the items
\* completed so far in the order of the text, and an interval once stored is
\* never removed or moved: every step leaves the list as it is or appends.
C16_EncounterOrder ==
    /\ []((items # None /\ hasText) =>
              /\ \A k \in 1..Len(ProcessedRuns) :
                     ProcessedRuns[k] # <<>> => ExpectedItem(ProcessedRuns[k]) # None
              /\ Val(items) = ItemsOfRuns(ProcessedRuns, 1))
    /\ [][items # None => (items' # None /\ IsPrefix(Val(items), Val(items')))]_vars

\* Three items given in descending order are stored in that order.
C16_Witness ==
    /\ pc = "constructed" /\ items # None /\ Len(Val(items)) = 3
    /\ Val(items)[1][1] # None /\ Val(items)[2][1] # None /\ Val(items)[3][1] # None
    /\ Val(Val(items)[1][1]) > Val(Val(items)[2][1])
    /\ Val(Val(items)[2][1]) > Val(Val(items)[3][1])

\* C17: a number right after a hyphen is stored negated and the hyphen flag is
\* cleared; a number not right after a hyphen is stored with its literal
\* value; the flag is set only while the last token handled is a hyphen.
\* "-5:5" yields (-5, 5) and ":-5" yields (None, -5).
C17_HyphenNegatesOneNumber ==
    /\ (pc = "inner" /\ Len(consumed) >= 2
            /\ IsNumber(consumed[Len(consumed) - 1])) =>
           LET n == Len(consumed) - 1
               v == DecimalValue(consumed[n].value)
               negated == n >= 2 /\ IsHyphen(consumed[n - 1])
               assigned == IF colonFound THEN upper ELSE lower
           IN  /\ ~afterHyphen
               /\ assigned = Some(IF negated THEN 0 - v ELSE v)
    /\ afterHyphen =>
           (Len(consumed) >= 2 /\ IsHyphen(consumed[Len(consumed) - 1]))
    /\ ParseText(<<"-", "5", ":", "5">>) =
           [error |-> "", line |-> 0, items |-> <<Item(Some(0 - 5), Some(5))>>]
    /\ ParseText(<<":", "-", "5">>) =
           [error |-> "", line |-> 0, items |-> <<Item(None, Some(0 - 5))>>]

\* The text "-1:1" has been constructed as (-1, 1).
C17_Witness ==
    /\ pc = "constructed"
    /\ items = Some(<<Item(Some(0 - 1), Some(1))>>)
    /\ Len(consumed) = 5 /\ IsHyphen(consumed[1])

\* C18: a hyphen must be followed by a number: a text in which the token
\* after a hyphen is no number (another hyphen, a colon, any other token, a
\* comma or the end marker) fails with RangeSyntaxError, at line 79 or, for
\* a comma or the end marker, line 91; these errors are raised for nothing
\* else, and no item ends with afterHyphen set.  "-:", "--5", "1:-" and
\* "-,5" fail.
C18_HyphenNeedsNumber ==
    /\ (\E i \in 1..(Len(consumed) - 1) :
            IsHyphen(consumed[i]) /\ ~IsNumber(consumed[i + 1])) =>
           \/ pc = "raised" /\ error = "RangeSyntaxError" /\ raisedAt \in {79, 91}
           \/ /\ pc = "inner" /\ afterHyphen /\ ~IsNumber(Val(next))
              /\ IsHyphen(consumed[Len(consumed) - 1])
    /\ raisedAt \in {79, 91} =>
           /\ pc = "raised" /\ error = "RangeSyntaxError"
           /\ Len(consumed) >= 2
           /\ IsHyphen(consumed[Len(consumed) - 1])
           /\ ~IsNumber(consumed[Len(consumed)])
           /\ (raisedAt = 91) = IsSeparator(consumed[Len(consumed)])
    /\ (AfterEndOfItem /\ pc # "raised") => ~afterHyphen
    /\ \A t \in {<<"-", ":">>, <<"-", "-", "5">>, <<"1", ":", "-">>, <<"-", ",", "5">>} :
           ParseText(t).error = "RangeSyntaxError"

\* The item "x:-" has raised at its end.
C18_Witness ==
    /\ pc = "raised" /\ raisedAt = 91 /\ colonFound /\ lower # None

\* The numbers of a run before its first colon, and after it.
NumbersBefore(run) ==
    Cardinality({i \in 1..Len(run) :
                    IsNumber(run[i]) /\ \A j \in 1..(i - 1) : ~IsColon(run[j])})
NumbersAfter(run) ==
    Cardinality({i \in 1..Len(run) :
                    IsNumber(run[i]) /\ \E j \in 1..(i - 1) : IsColon(run[j])})

\* C19: within an item a bound once set is never changed, lower is set only
\* by a number before any colon and upper only by a number after the colon;
\* a second number before the colon (line 77) or after it (line 73) fails
\* with RangeSyntaxError, so no accepted item holds two numbers on one side
\* of its colon.
C19_OneNumberPerSide ==
    /\ [][pc = "inner" =>
              /\ lower # None => lower' = lower
              /\ upper # None => upper' = upper
              /\ lower' # lower => (~colonFound /\ IsNumber(Val(next)))
              /\ upper' # upper => (colonFound /\ IsNumber(Val(next)))]_vars
    /\ [](raisedAt = 77 =>
              (error = "RangeSyntaxError" /\ ~colonFound /\ lower # None
                  /\ IsNumber(consumed[Len(consumed)])))
    /\ [](raisedAt = 73 =>
              (error = "RangeSyntaxError" /\ colonFound /\ upper # None
                  /\ IsNumber(consumed[Len(consumed)])))
    /\ []((\E k \in 1..Len(AllRuns) :
               NumbersBefore(AllRuns[k]) >= 2 \/ NumbersAfter(AllRuns[k]) >= 2) =>
              \/ pc = "raised" /\ error = "RangeSyntaxError"
              \/ /\ pc = "inner" /\ IsNumber(Val(next))
                 /\ IF colonFound THEN upper # None ELSE lower # None)

\* A second number after the colon has raised.
C19_Witness ==
    /\ pc = "raised" /\ raisedAt = 73 /\ lower # None /\ upper # None

\* The non-empty runs from the i-th on, joined by commas and closed by the
\* end marker: the tokens of the text with its empty items taken out.
RECURSIVE JoinRuns(_, _, _)
JoinRuns(runs, i, first) ==
    IF i > Len(runs) THEN <<EofToken>>
    ELSE IF runs[i] = <<>> THEN JoinRuns(runs, i + 1, first)
    ELSE (IF first THEN <<>> ELSE <<Tok("OP", <<",">>)>>)
             \o runs[i] \o JoinRuns(runs, i + 1, FALSE)

WithoutEmptyItems(toks) == JoinRuns(CompleteRuns(toks), 1, TRUE)

\* C20: an item without tokens yields no interval and no error: its end
\* leaves items as it is and does not raise, the loop going on unless the end
\* marker closed it; a constructed Range holds the items its text gives with
\* the empty items taken out; "1,,3", ",1,3" and "1,3," give the items of
\* "1,3".
C20_EmptyItemsSkipped ==
    /\ [][(pc = "inner" /\ IsSeparator(Val(next)) /\ CurrentRun = <<>>) =>
              /\ items' = items
              /\ error' = error
              /\ pc' = IF Val(next) = EofToken THEN "constructed" ELSE "outer"]_vars
    /\ []((pc = "raised" /\ AfterEndOfItem /\ raisedAt \in {91, 99, 104, 110, 119}) =>
              CurrentRun # <<>>)
    /\ []((pc = "constructed" /\ hasText) =>
              /\ ParseTokens(WithoutEmptyItems(consumed)).error = ""
              /\ ParseTokens(WithoutEmptyItems(consumed)).items = Val(items))
    /\ [](/\ ParseText(<<"1", ",", "3">>)
                 = [error |-> "", line |-> 0,
                    items |-> <<Item(Some(1), Some(1)), Item(Some(3), Some(3))>>]
          /\ ParseText(<<"1", ",", ",", "3">>) = ParseText(<<"1", ",", "3">>)
          /\ ParseText(<<",", "1", ",", "3">>) = ParseText(<<"1", ",", "3">>)
          /\ ParseText(<<"1", ",", "3", ",">>) = ParseText(<<"1", ",", "3">>))

\* A text with an empty item between two items has been constructed.
C20_Witness ==
    /\ pc = "constructed" /\ hasText /\ Len(Val(items)) = 2
    /\ Len(consumed) = 5
    /\ IsComma(consumed[2]) /\ IsComma(consumed[3])

\* The item has a bound.
HasBound(item) == item[1] # None \/ item[2] # None

\* C21: every interval stored in items has at least one bound, so the
\* assertion of line 104 never fails (upper is set only once a colon was
\* seen), and neither does the one of _repr_item (line 129) nor the one of
\* validate (line 206) on any stored list.
C21_StoredItemsHaveBound ==
    /\ items # None =>
           \A i \in 1..Len(Val(items)) :
               /\ HasBound(Val(items)[i])
               /\ repr_item(Val(items)[i]) # <<"AssertionError">>
    /\ upper # None => colonFound
    /\ raisedAt # 104 /\ error # "AssertionError"
    /\ lastResult # Some("AssertionError")
    /\ items # None =>
           \A value \in ValidateValues : validate(items, value) # "AssertionError"

\* validate has run on a constructed Range with an item without lower bound.
C21_Witness ==
    /\ pc = "constructed" /\ items # None /\ lastResult # None
    /\ \E i \in 1..Len(Val(items)) :
           Val(items)[i][1] = None /\ Val(items)[i][2] # None

=============================================================================
